---- MODULE Spec2Model ----
(***************************************************************************)
(* Magic Eraser AI: the App component (upload, tabs, the asynchronous      *)
(* handleRemoveWatermark orchestration) and the geminiService clients      *)
(* (fileToBase64, removeImageWatermark, reconstructVideoFromImage).        *)
(*                                                                         *)
(* One run of handleRemoveWatermark is a chain of continuations; each      *)
(* await is a position (pc) of the run, and the step that resumes the run  *)
(* executes the synchronous code up to the next await.  The handlers of    *)
(* the user interface are enabled exactly when the element that carries    *)
(* them is rendered.  dragActive is read by no handler and is left out.    *)
(*                                                                         *)
(* Spec follows one run at a time through every outcome of every call.     *)
(* SpecApp lets up to MaxRuns runs overlap and draws the outcomes of the   *)
(* calls from narrower sets.                                               *)
(***************************************************************************)
EXTENDS Integers, Sequences, FiniteSets, TLC

(* ---------------- bounds ---------------- *)
MaxRuns == 2
MaxPolls == 2
MaxParts == 2

(* ---------------- values ---------------- *)
IMAGE == "IMAGE"
VIDEO == "VIDEO"
MediaType == {IMAGE, VIDEO}

NoFile == "null"
Files == {"a.png", "b.mp4"}

\* File.type, as <<type, subtype>> of the mime string "type/subtype"
FileType(f) ==
  IF f = "a.png" THEN <<"image", "png">>
  ELSE IF f = "b.mp4" THEN <<"video", "mp4">>
  ELSE <<"", "">>

NoUrl == "null"
\* URL.createObjectURL(selectedFile)
createObjectURL(f) == "blob:" \o f

NoMessage == ""
NoProgress == -1

MsgAnalyzing == "Analyzing image structure..."
MsgRemoving == "Removing watermark patterns..."
MsgChecking == "Video processing requires a paid API key. Checking..."
MsgExtracting == "Extracting reference frame..."
MsgCleaning == "Cleaning reference frame..."
MsgReconstructing == "Reconstructing video stream (this may take a minute)..."
MsgFailed == "Failed to process file."
MsgNoImageData == "No image data returned from the model."
MsgSelectKey == "Please select a paid API key to use Video features."
MsgNoUri == "Video generation failed to return a URI."
MsgTransport == "Network error"

\* `Please upload a valid ${activeTab.toLowerCase()} file.`
MsgInvalid(tab) ==
  IF tab = IMAGE THEN "Please upload a valid image file."
  ELSE "Please upload a valid video file."

\* NoMessage is the message of an error object that has none, such as the
\* ProgressEvent that FileReader.onerror rejects with

\* ProcessingState, fully replaced by every setStatus
ProcessingState(s, m, p) == [status |-> s, message |-> m, progress |-> p]
Idle == ProcessingState("idle", NoMessage, NoProgress)
Success == ProcessingState("success", NoMessage, NoProgress)
Processing(m, p) == ProcessingState("processing", m, p)
\* setStatus({ status: 'error', message: error.message || "Failed to process file." })
ErrorState(m) ==
  ProcessingState("error", IF m = NoMessage THEN MsgFailed ELSE m, NoProgress)

\* the stored result: a data URL (mime, data) or an object URL of the
\* fetched blob; "of" remembers the asset the run was started on and "ok"
\* the response.ok of the fetch the blob came from
NoResult == [kind |-> "null", mime |-> <<"", "">>, data |-> "", of |-> NoFile, ok |-> TRUE]
DataUrlResult(mime, data, f) ==
  [kind |-> "data", mime |-> mime, data |-> data, of |-> f, ok |-> TRUE]
BlobUrlResult(f, ok) ==
  [kind |-> "blob", mime |-> <<"", "">>, data |-> "", of |-> f, ok |-> ok]

(* ---------------- what a call settles with ---------------- *)

NoUri == "null"
\* the video job handle: done, and
\* operation.response?.generatedVideos?.[0]?.video?.uri
Operation(d, u) == [done |-> d, uri |-> u]
NoOperation == Operation(FALSE, NoUri)
\* the uri is absent while the job runs and may be absent when it is done
Operations == {Operation(FALSE, NoUri), Operation(TRUE, NoUri), Operation(TRUE, "uri")}

\* a promise settles: it resolves with a value (a string, the parts of an
\* edit response or a job handle), or rejects with an error
Settled(ok, v, parts, op, m) ==
  [ok |-> ok, value |-> v, parts |-> parts, operation |-> op, message |-> m]
Resolved(v) == Settled(TRUE, v, <<>>, NoOperation, NoMessage)
ResolvedParts(parts) == Settled(TRUE, "", parts, NoOperation, NoMessage)
ResolvedOperation(op) == Settled(TRUE, "", <<>>, op, NoMessage)
Rejected(m) == Settled(FALSE, "", <<>>, NoOperation, m)

\* a function returns a value or throws an error with a message
Returned(v) == [ok |-> TRUE, value |-> v, message |-> NoMessage]
Thrown(m) == [ok |-> FALSE, value |-> "", message |-> m]

(* ---------------- the edit service response ---------------- *)
Payloads == {"A", "B"}
TextPart == [inlineData |-> FALSE, data |-> ""]
\* a part with inlineData; its data may be the empty string
BinaryPart(d) == [inlineData |-> TRUE, data |-> d]
Parts == {TextPart} \cup {BinaryPart(d) : d \in Payloads \cup {""}}

RECURSIVE SeqsUpTo(_, _)
SeqsUpTo(S, n) ==
  IF n = 0 THEN {<<>>}
  ELSE LET shorter == SeqsUpTo(S, n - 1)
       IN shorter \cup {Append(s, x) : s \in {t \in shorter : Len(t) = n - 1}, x \in S}

\* response.candidates?.[0]?.content?.parts || []
EditResponses == SeqsUpTo(Parts, MaxParts)

\* the for loop of removeImageWatermark over the parts, from index i
RECURSIVE ScanParts(_, _)
ScanParts(parts, i) ==
  IF i > Len(parts) THEN Thrown(MsgNoImageData)
  ELSE IF parts[i].inlineData /\ parts[i].data # ""
       THEN Returned(parts[i].data)
       ELSE ScanParts(parts, i + 1)

\* mutant: the loop tests part.inlineData only
removeImageWatermarkNoDataTest(out) ==
  IF ~out.ok THEN Thrown(out.message)
  ELSE IF \E i \in 1..Len(out.parts) : out.parts[i].inlineData
  THEN Returned(out.parts[CHOOSE i \in 1..Len(out.parts) :
                            /\ out.parts[i].inlineData
                            /\ \A j \in 1..(i - 1) : ~out.parts[j].inlineData].data)
  ELSE Thrown(MsgNoImageData)

\* mutant: the throw after the loop is missing and the function returns
\* an empty payload
removeImageWatermarkNoThrow(out) ==
  IF ~out.ok THEN Thrown(out.message)
  ELSE IF ScanParts(out.parts, 1).ok THEN ScanParts(out.parts, 1) ELSE Returned("")

\* mutant: the loop does not return at the first data part, so the last
\* one wins
removeImageWatermarkLastPart(out) ==
  IF ~out.ok THEN Thrown(out.message)
  ELSE IF ScanParts(out.parts, 1).ok
  THEN Returned(out.parts[CHOOSE i \in 1..Len(out.parts) :
                            /\ out.parts[i].inlineData /\ out.parts[i].data # ""
                            /\ \A j \in (i + 1)..Len(out.parts) :
                                 ~(out.parts[j].inlineData /\ out.parts[j].data # "")].data)
  ELSE Thrown(MsgNoImageData)

\* removeImageWatermark from the moment generateContent settles with
\* `out`; the catch logs and rethrows
removeImageWatermark(out) ==
  IF out.ok THEN ScanParts(out.parts, 1) ELSE Thrown(out.message)

(* ---------------- the outcomes the environment may produce ---------------- *)

\* fileToBase64: reader.onload, or reader.onerror
ReadOutcomes == {Resolved("base64"), Rejected(NoMessage)}
EditOutcomes == {ResolvedParts(p) : p \in EditResponses} \cup {Rejected(MsgTransport)}
HasKeyOutcomes == {Resolved("true"), Resolved("false"), Rejected(MsgTransport)}
SelectKeyOutcomes == {Resolved("void"), Rejected(MsgTransport)}
\* videoElement.load(): loadeddata fires, or never does
LoadOutcomes == {Resolved("loadeddata"), Resolved("never")}
Dimensions == {0, 1}
JobOutcomes == {ResolvedOperation(op) : op \in Operations} \cup {Rejected(MsgTransport)}
\* fetch resolves with a response whose ok is true or false, or rejects
FetchOutcomes == {Resolved("ok"), Resolved("not ok"), Rejected(MsgTransport)}
BlobOutcomes == {Resolved("blob"), Rejected(MsgTransport)}

\* the narrower sets of SpecApp
AppEditOutcomes ==
  {ResolvedParts(<<>>), ResolvedParts(<<BinaryPart("A")>>), Rejected(MsgTransport)}
AppDimensions == {1}
AppStatusOutcomes == {o \in JobOutcomes : o.ok => o.operation.done}

(* ---------------- state ---------------- *)
VARIABLES
  activeTab,    \* useState<MediaType>
  file,         \* useState<File | null>
  previewUrl,   \* useState<string | null>
  resultUrl,    \* useState<string | null>
  status,       \* useState<ProcessingState>
  aistudio,     \* window.aistudio && window.aistudio.hasSelectedApiKey
  runs,         \* the invocations of handleRemoveWatermark in flight
  lastIn        \* the latest step: who took it and what it received

vars == <<activeTab, file, previewUrl, resultUrl, status, aistudio, runs, lastIn>>

RunIds == 1..MaxRuns

\* a run: its position, the values its closure captured, its locals, and
\* the remote calls it has made so far; a run that has ended leaves
\* nothing behind
\* the handles of a job are numbered in the order the run receives them:
\* 0 is the one generateVideos returns, k the answer to the k-th
\* getVideosOperation; `handle` is the one the variable `operation` holds,
\* `queried` the one passed in the last getVideosOperation
NoHandle == -1

NoRun ==
  [pc |-> "free", file |-> NoFile, activeTab |-> IMAGE, previewUrl |-> NoUrl,
   frameBase64 |-> "", cleanFrame |-> "", operation |-> NoOperation,
   responseOk |-> TRUE,
   editCalls |-> 0, submitCalls |-> 0, statusCalls |-> 0, fetchCalls |-> 0,
   notDone |-> 0, handle |-> NoHandle, queried |-> NoHandle]

InFlight(r) == runs[r].pc # "free"

\* the label of a step of run r resumed at position `at` with outcome
\* `out`, and of a handler of the user interface
Input(r, at, out) == [run |-> r, at |-> at, out |-> out]
UserInput(handler) == [run |-> 0, at |-> handler, out |-> Resolved("")]

Init ==
  /\ activeTab = IMAGE
  /\ file = NoFile
  /\ previewUrl = NoUrl
  /\ resultUrl = NoResult
  /\ status = Idle
  /\ aistudio \in BOOLEAN
  /\ runs = [r \in RunIds |-> NoRun]
  /\ lastIn = UserInput("mount")

(* ---------------- the user interface ---------------- *)

\* what the render shows
UploadShown == file = NoFile
ResultShown == file # NoFile /\ status.status # "processing" /\ resultUrl # NoResult
PreviewShown == file # NoFile /\ status.status # "processing" /\ resultUrl = NoResult
ErrorShown == status.status = "error"

\* file.type.startsWith('image/') or ('video/')
validateFile(f) ==
  IF activeTab = IMAGE THEN FileType(f)[1] = "image" ELSE FileType(f)[1] = "video"

\* a tab button, and the effect on [activeTab]; setActiveTab with the
\* current tab changes nothing and runs no effect
TabSwitch(t) ==
  /\ t # activeTab
  /\ activeTab' = t
  /\ file' = NoFile
  /\ previewUrl' = NoUrl
  /\ resultUrl' = NoResult
  /\ status' = Idle
  /\ lastIn' = UserInput("TabSwitch")
  /\ UNCHANGED <<aistudio, runs>>

handleFileSelect(f) ==
  /\ file' = f
  /\ resultUrl' = NoResult
  /\ status' = Idle
  /\ previewUrl' = createObjectURL(f)

handleDrop(f) ==
  /\ UploadShown
  /\ IF validateFile(f)
     THEN handleFileSelect(f)
     ELSE /\ status' = ErrorState(MsgInvalid(activeTab))
          /\ UNCHANGED <<file, previewUrl, resultUrl>>
  /\ lastIn' = UserInput("handleDrop")
  /\ UNCHANGED <<activeTab, aistudio, runs>>

\* the accept attribute of the input is a hint of the file dialog only
handleFileChange(f) ==
  /\ UploadShown
  /\ handleFileSelect(f)
  /\ lastIn' = UserInput("handleFileChange")
  /\ UNCHANGED <<activeTab, aistudio, runs>>

\* the file dialog of an input with accept="image/*" or "video/*", left
\* at its default filter
handleFileChangeAccepted(f) ==
  /\ validateFile(f)
  /\ handleFileChange(f)

\* the X of the error banner
DismissError ==
  /\ ErrorShown
  /\ status' = Idle
  /\ lastIn' = UserInput("DismissError")
  /\ UNCHANGED <<activeTab, file, previewUrl, resultUrl, aistudio, runs>>

\* the X of the preview
RemovePreview ==
  /\ PreviewShown
  /\ file' = NoFile
  /\ previewUrl' = NoUrl
  /\ lastIn' = UserInput("RemovePreview")
  /\ UNCHANGED <<activeTab, resultUrl, status, aistudio, runs>>

\* mutant: Start Over clears the file and the result and leaves the state
StartOverKeepsStatus ==
  /\ ResultShown
  /\ file' = NoFile
  /\ resultUrl' = NoResult
  /\ previewUrl' = NoUrl
  /\ status' = status
  /\ lastIn' = UserInput("StartOver")
  /\ UNCHANGED <<activeTab, aistudio, runs>>

StartOver ==
  /\ ResultShown
  /\ file' = NoFile
  /\ resultUrl' = NoResult
  /\ previewUrl' = NoUrl
  /\ status' = Idle
  /\ lastIn' = UserInput("StartOver")
  /\ UNCHANGED <<activeTab, aistudio, runs>>

(* ---------------- handleRemoveWatermark ---------------- *)

SetRun(r, rec) == runs' = [runs EXCEPT ![r] = rec]

\* the run has returned or thrown: its closure and locals are gone
EndRun(r) == runs' = [runs EXCEPT ![r] = NoRun]

\* mutant: the catch block also clears the result
catchClearsResult(r, m) ==
  /\ status' = ErrorState(m)
  /\ resultUrl' = NoResult
  /\ EndRun(r)

\* catch (error) { setStatus({ status: 'error', message: ... }) }
catch(r, m) ==
  /\ status' = ErrorState(m)
  /\ resultUrl' = resultUrl
  /\ EndRun(r)

\* the click on "Remove Watermark", up to the await of fileToBase64; the
\* new run is r, the first that is not in use
handleRemoveWatermark(r) ==
  /\ PreviewShown
  /\ ~InFlight(r)
  /\ \A q \in RunIds : q < r => InFlight(q)
  /\ file # NoFile
  /\ status' = Processing(NoMessage, 10)
  /\ SetRun(r, [NoRun EXCEPT !.pc = "fileToBase64", !.file = file,
                             !.activeTab = activeTab, !.previewUrl = previewUrl])
  /\ lastIn' = UserInput("handleRemoveWatermark")
  /\ UNCHANGED <<activeTab, file, previewUrl, resultUrl, aistudio>>

\* fileToBase64 settles
AfterFileToBase64(r, out) ==
  /\ runs[r].pc = "fileToBase64"
  /\ lastIn' = Input(r, "fileToBase64", out)
  /\ IF ~out.ok THEN catch(r, out.message)
     ELSE /\ resultUrl' = resultUrl
          /\ IF runs[r].activeTab = IMAGE
             THEN /\ status' = Processing(MsgAnalyzing, 30)
                  /\ SetRun(r, [runs[r] EXCEPT !.pc = "delay"])
             ELSE IF aistudio
             THEN /\ status' = Processing(MsgChecking, 20)
                  /\ SetRun(r, [runs[r] EXCEPT !.pc = "hasSelectedApiKey"])
             ELSE /\ status' = Processing(MsgExtracting, 30)
                  /\ SetRun(r, [runs[r] EXCEPT !.pc = "loadeddata"])
  /\ UNCHANGED <<activeTab, file, previewUrl, aistudio>>

\* the 500 ms timer of the image branch fires; generateContent is called
AfterDelay(r) ==
  /\ runs[r].pc = "delay"
  /\ status' = Processing(MsgRemoving, 60)
  /\ SetRun(r, [runs[r] EXCEPT !.pc = "generateContent",
                               !.editCalls = runs[r].editCalls + 1])
  /\ lastIn' = Input(r, "delay", Resolved("timeout"))
  /\ UNCHANGED <<activeTab, file, previewUrl, resultUrl, aistudio>>

\* image branch: removeImageWatermark settles
AfterRemoveImageWatermark(r, out) ==
  /\ runs[r].pc = "generateContent"
  /\ lastIn' = Input(r, "generateContent", out)
  /\ LET clean == removeImageWatermark(out)
     IN IF clean.ok
        THEN /\ resultUrl' = DataUrlResult(FileType(runs[r].file), clean.value, runs[r].file)
             /\ status' = Success
             /\ EndRun(r)
        ELSE catch(r, clean.message)
  /\ UNCHANGED <<activeTab, file, previewUrl, aistudio>>

(* ---------------- the video branch ---------------- *)

\* mutant: the result of the check is not looked at
AfterHasSelectedApiKeyIgnored(r, out) ==
  /\ runs[r].pc = "hasSelectedApiKey"
  /\ lastIn' = Input(r, "hasSelectedApiKey", out)
  /\ IF out.ok
     THEN /\ status' = Processing(MsgExtracting, 30)
          /\ resultUrl' = resultUrl
          /\ SetRun(r, [runs[r] EXCEPT !.pc = "loadeddata"])
     ELSE catch(r, out.message)
  /\ UNCHANGED <<activeTab, file, previewUrl, aistudio>>

\* hasSelectedApiKey of the orchestrator settles
AfterHasSelectedApiKey(r, out) ==
  /\ runs[r].pc = "hasSelectedApiKey"
  /\ lastIn' = Input(r, "hasSelectedApiKey", out)
  /\ IF ~out.ok THEN catch(r, out.message)
     ELSE IF out.value = "true"
     THEN /\ status' = Processing(MsgExtracting, 30)
          /\ resultUrl' = resultUrl
          /\ SetRun(r, [runs[r] EXCEPT !.pc = "loadeddata"])
     ELSE /\ status' = Idle
          /\ resultUrl' = resultUrl
          /\ SetRun(r, [runs[r] EXCEPT !.pc = "openSelectKey"])
  /\ UNCHANGED <<activeTab, file, previewUrl, aistudio>>

\* openSelectKey settles; the handler returns
AfterOpenSelectKey(r, out) ==
  /\ runs[r].pc = "openSelectKey"
  /\ lastIn' = Input(r, "openSelectKey", out)
  /\ IF out.ok
     THEN /\ EndRun(r)
          /\ UNCHANGED <<status, resultUrl>>
     ELSE catch(r, out.message)
  /\ UNCHANGED <<activeTab, file, previewUrl, aistudio>>

\* videoElement.load(): loadeddata fires, or never does (no other
\* handler is installed, so the promise then stays pending)
AfterLoad(r, out) ==
  /\ runs[r].pc = "loadeddata"
  /\ SetRun(r, [runs[r] EXCEPT !.pc = IF out.value = "loadeddata" THEN "seek" ELSE "pending"])
  /\ lastIn' = Input(r, "loadeddata", out)
  /\ UNCHANGED <<activeTab, file, previewUrl, resultUrl, status, aistudio>>

\* canvas.toDataURL('image/jpeg').split(',')[1]: a canvas of width or
\* height 0 gives "data:,", whose second piece is the empty string
toDataURLPayload(w, h) == IF w = 0 \/ h = 0 THEN "" ELSE "frame"

\* mutant: the frame step reports a progress below that of the step before
AfterSeekProgressDrops(r, videoWidth, videoHeight) ==
  /\ runs[r].pc = "seek"
  /\ status' = Processing(MsgCleaning, 25)
  /\ SetRun(r, [runs[r] EXCEPT !.pc = "generateContentFrame",
                               !.frameBase64 = toDataURLPayload(videoWidth, videoHeight),
                               !.editCalls = runs[r].editCalls + 1])
  /\ lastIn' = Input(r, "seek", Resolved(toDataURLPayload(videoWidth, videoHeight)))
  /\ UNCHANGED <<activeTab, file, previewUrl, resultUrl, aistudio>>

\* the 200 ms timer fires: the frame is drawn and encoded, and
\* removeImageWatermark calls generateContent
AfterSeek(r, videoWidth, videoHeight) ==
  /\ runs[r].pc = "seek"
  /\ status' = Processing(MsgCleaning, 50)
  /\ SetRun(r, [runs[r] EXCEPT !.pc = "generateContentFrame",
                               !.frameBase64 = toDataURLPayload(videoWidth, videoHeight),
                               !.editCalls = runs[r].editCalls + 1])
  /\ lastIn' = Input(r, "seek", Resolved(toDataURLPayload(videoWidth, videoHeight)))
  /\ UNCHANGED <<activeTab, file, previewUrl, resultUrl, aistudio>>

\* mutant: the job is submitted whether or not the edit call gave a frame
AfterCleanFrameSubmitsAnyway(r, out) ==
  /\ runs[r].pc = "generateContentFrame"
  /\ lastIn' = Input(r, "generateContentFrame", out)
  /\ status' = Processing(MsgReconstructing, 70)
  /\ resultUrl' = resultUrl
  /\ SetRun(r, [runs[r] EXCEPT !.pc = "generateVideos",
                               !.cleanFrame = removeImageWatermark(out).value,
                               !.submitCalls = runs[r].submitCalls + 1])
  /\ UNCHANGED <<activeTab, file, previewUrl, aistudio>>

\* video branch: removeImageWatermark settles; on a clean frame
\* reconstructVideoFromImage starts, up to its first await
AfterCleanFrame(r, out) ==
  /\ runs[r].pc = "generateContentFrame"
  /\ lastIn' = Input(r, "generateContentFrame", out)
  /\ LET clean == removeImageWatermark(out)
     IN IF clean.ok
        THEN /\ status' = Processing(MsgReconstructing, 70)
             /\ resultUrl' = resultUrl
             /\ IF aistudio
                THEN SetRun(r, [runs[r] EXCEPT !.pc = "reconstructHasKey",
                                               !.cleanFrame = clean.value])
                ELSE SetRun(r, [runs[r] EXCEPT !.pc = "generateVideos",
                                               !.cleanFrame = clean.value,
                                               !.submitCalls = runs[r].submitCalls + 1])
        ELSE catch(r, clean.message)
  /\ UNCHANGED <<activeTab, file, previewUrl, aistudio>>

\* hasSelectedApiKey of reconstructVideoFromImage settles
AfterReconstructHasKey(r, out) ==
  /\ runs[r].pc = "reconstructHasKey"
  /\ lastIn' = Input(r, "reconstructHasKey", out)
  /\ IF ~out.ok THEN catch(r, out.message)
     ELSE IF out.value = "true"
     THEN /\ SetRun(r, [runs[r] EXCEPT !.pc = "generateVideos",
                                       !.submitCalls = runs[r].submitCalls + 1])
          /\ UNCHANGED <<status, resultUrl>>
     ELSE catch(r, MsgSelectKey)
  /\ UNCHANGED <<activeTab, file, previewUrl, aistudio>>

\* mutant: the asset is fetched as soon as a handle is held, done or not
pollFetchesEarly(r, rec) ==
  IF rec.operation.uri # NoUri \/ ~rec.operation.done
  THEN /\ SetRun(r, [rec EXCEPT !.pc = "fetch", !.fetchCalls = rec.fetchCalls + 1])
       /\ UNCHANGED <<status, resultUrl>>
  ELSE catch(r, MsgNoUri)

\* while (!operation.done) { wait } ... downloadLink ... fetch: the code
\* that runs once `operation` has been assigned, up to the next await
poll(r, rec) ==
  IF ~rec.operation.done
  THEN /\ SetRun(r, [rec EXCEPT !.pc = "wait"])
       /\ UNCHANGED <<status, resultUrl>>
  ELSE IF rec.operation.uri # NoUri
  THEN /\ SetRun(r, [rec EXCEPT !.pc = "fetch", !.fetchCalls = rec.fetchCalls + 1])
       /\ UNCHANGED <<status, resultUrl>>
  ELSE catch(r, MsgNoUri)

\* generateVideos settles
AfterGenerateVideos(r, out) ==
  /\ runs[r].pc = "generateVideos"
  /\ lastIn' = Input(r, "generateVideos", out)
  /\ IF out.ok
     THEN poll(r, [runs[r] EXCEPT !.operation = out.operation, !.handle = 0])
     ELSE catch(r, out.message)
  /\ UNCHANGED <<activeTab, file, previewUrl, aistudio>>

\* mutant: when the timer fires the loop waits again and makes no query
AfterWaitNoQuery(r) ==
  /\ runs[r].pc = "wait"
  /\ lastIn' = Input(r, "wait", Resolved("timeout"))
  /\ UNCHANGED <<activeTab, file, previewUrl, resultUrl, status, aistudio, runs>>

\* mutant: every query is made with the handle that generateVideos returned
AfterWaitFirstHandle(r) ==
  /\ runs[r].pc = "wait"
  /\ SetRun(r, [runs[r] EXCEPT !.pc = "getVideosOperation",
                               !.queried = 0,
                               !.statusCalls = runs[r].statusCalls + 1])
  /\ lastIn' = Input(r, "wait", Resolved("timeout"))
  /\ UNCHANGED <<activeTab, file, previewUrl, resultUrl, status, aistudio>>

\* the 5 s timer fires; getVideosOperation is called with the held handle
AfterWait(r) ==
  /\ runs[r].pc = "wait"
  /\ SetRun(r, [runs[r] EXCEPT !.pc = "getVideosOperation",
                               !.queried = runs[r].handle,
                               !.statusCalls = runs[r].statusCalls + 1])
  /\ lastIn' = Input(r, "wait", Resolved("timeout"))
  /\ UNCHANGED <<activeTab, file, previewUrl, resultUrl, status, aistudio>>

\* mutant: a job that is done is fetched without a look at its locator
AfterGetVideosOperationFetchesAnyway(r, out) ==
  /\ runs[r].pc = "getVideosOperation"
  /\ (out.ok /\ ~out.operation.done) => runs[r].notDone < MaxPolls
  /\ lastIn' = Input(r, "getVideosOperation", out)
  /\ IF out.ok /\ out.operation.done
     THEN /\ SetRun(r, [runs[r] EXCEPT !.operation = out.operation, !.pc = "fetch",
                                       !.fetchCalls = runs[r].fetchCalls + 1])
          /\ UNCHANGED <<status, resultUrl>>
     ELSE IF out.ok
     THEN poll(r, [runs[r] EXCEPT !.operation = out.operation,
                                  !.notDone = runs[r].notDone + 1])
     ELSE catch(r, out.message)
  /\ UNCHANGED <<activeTab, file, previewUrl, aistudio>>

\* getVideosOperation settles; the answer is "not done" at most MaxPolls
\* times in a run
AfterGetVideosOperation(r, out) ==
  /\ runs[r].pc = "getVideosOperation"
  /\ (out.ok /\ ~out.operation.done) => runs[r].notDone < MaxPolls
  /\ lastIn' = Input(r, "getVideosOperation", out)
  /\ IF out.ok
     THEN poll(r, [runs[r] EXCEPT
                     !.operation = out.operation,
                     !.handle = runs[r].statusCalls,
                     !.notDone = IF out.operation.done THEN @ ELSE @ + 1])
     ELSE catch(r, out.message)
  /\ UNCHANGED <<activeTab, file, previewUrl, aistudio>>

\* mutant: a fetch that rejects is issued a second time
AfterFetchRetries(r, out) ==
  /\ runs[r].pc = "fetch"
  /\ lastIn' = Input(r, "fetch", out)
  /\ IF out.ok
     THEN /\ SetRun(r, [runs[r] EXCEPT !.pc = "blob", !.responseOk = (out.value = "ok")])
          /\ UNCHANGED <<status, resultUrl>>
     ELSE IF runs[r].fetchCalls < 2
     THEN /\ SetRun(r, [runs[r] EXCEPT !.fetchCalls = runs[r].fetchCalls + 1])
          /\ UNCHANGED <<status, resultUrl>>
     ELSE catch(r, out.message)
  /\ UNCHANGED <<activeTab, file, previewUrl, aistudio>>

\* fetch settles; response.ok is not looked at
AfterFetch(r, out) ==
  /\ runs[r].pc = "fetch"
  /\ lastIn' = Input(r, "fetch", out)
  /\ IF out.ok
     THEN /\ SetRun(r, [runs[r] EXCEPT !.pc = "blob", !.responseOk = (out.value = "ok")])
          /\ UNCHANGED <<status, resultUrl>>
     ELSE catch(r, out.message)
  /\ UNCHANGED <<activeTab, file, previewUrl, aistudio>>

\* videoResponse.blob() settles; reconstructVideoFromImage returns the
\* object URL and the orchestrator stores it
AfterBlob(r, out) ==
  /\ runs[r].pc = "blob"
  /\ lastIn' = Input(r, "blob", out)
  /\ IF out.ok
     THEN /\ resultUrl' = BlobUrlResult(runs[r].file, runs[r].responseOk)
          /\ status' = Success
          /\ EndRun(r)
     ELSE catch(r, out.message)
  /\ UNCHANGED <<activeTab, file, previewUrl, aistudio>>

(* ---------------- specifications ---------------- *)

\* one run at a time, every outcome of every call
Next ==
  \/ \E t \in MediaType : TabSwitch(t)
  \/ \E f \in Files : handleDrop(f)
  \/ \E f \in Files : handleFileChange(f)
  \/ DismissError
  \/ RemovePreview
  \/ StartOver
  \/ handleRemoveWatermark(1)
  \/ \E out \in ReadOutcomes : AfterFileToBase64(1, out)
  \/ AfterDelay(1)
  \/ \E out \in EditOutcomes : AfterRemoveImageWatermark(1, out)
  \/ \E out \in HasKeyOutcomes : AfterHasSelectedApiKey(1, out)
  \/ \E out \in SelectKeyOutcomes : AfterOpenSelectKey(1, out)
  \/ \E out \in LoadOutcomes : AfterLoad(1, out)
  \/ \E w \in Dimensions, h \in Dimensions : AfterSeek(1, w, h)
  \/ \E out \in EditOutcomes : AfterCleanFrame(1, out)
  \/ \E out \in HasKeyOutcomes : AfterReconstructHasKey(1, out)
  \/ \E out \in JobOutcomes : AfterGenerateVideos(1, out)
  \/ AfterWait(1)
  \/ \E out \in JobOutcomes : AfterGetVideosOperation(1, out)
  \/ \E out \in FetchOutcomes : AfterFetch(1, out)
  \/ \E out \in BlobOutcomes : AfterBlob(1, out)

Spec == Init /\ [][Next]_vars

\* up to MaxRuns runs in flight; the outcomes of the edit call, the frame
\* dimensions and the answers to a status query are drawn from the
\* narrower sets, and the file dialog offers the files its accept
\* attribute names
NextApp ==
  \/ \E t \in MediaType : TabSwitch(t)
  \/ \E f \in Files : handleDrop(f)
  \/ \E f \in Files : handleFileChangeAccepted(f)
  \/ DismissError
  \/ RemovePreview
  \/ StartOver
  \/ \E r \in RunIds : handleRemoveWatermark(r)
  \/ \E r \in RunIds, out \in ReadOutcomes : AfterFileToBase64(r, out)
  \/ \E r \in RunIds : AfterDelay(r)
  \/ \E r \in RunIds, out \in AppEditOutcomes : AfterRemoveImageWatermark(r, out)
  \/ \E r \in RunIds, out \in HasKeyOutcomes : AfterHasSelectedApiKey(r, out)
  \/ \E r \in RunIds, out \in SelectKeyOutcomes : AfterOpenSelectKey(r, out)
  \/ \E r \in RunIds, out \in LoadOutcomes : AfterLoad(r, out)
  \/ \E r \in RunIds, w \in AppDimensions, h \in AppDimensions : AfterSeek(r, w, h)
  \/ \E r \in RunIds, out \in AppEditOutcomes : AfterCleanFrame(r, out)
  \/ \E r \in RunIds, out \in HasKeyOutcomes : AfterReconstructHasKey(r, out)
  \/ \E r \in RunIds, out \in JobOutcomes : AfterGenerateVideos(r, out)
  \/ \E r \in RunIds : AfterWait(r)
  \/ \E r \in RunIds, out \in AppStatusOutcomes : AfterGetVideosOperation(r, out)
  \/ \E r \in RunIds, out \in FetchOutcomes : AfterFetch(r, out)
  \/ \E r \in RunIds, out \in BlobOutcomes : AfterBlob(r, out)

SpecApp == Init /\ [][NextApp]_vars

\* a step of a run: a promise that the run awaits settles or its timer
\* fires, and the continuation runs
RunStep == Next /\ lastIn'.run # 0

\* every promise settles and every timer fires; the user is free to do
\* nothing
SpecLive == Init /\ [][Next]_vars /\ WF_vars(RunStep)

(* ---------------- properties ---------------- *)

\* a part carries binary image data: part.inlineData && part.inlineData.data
CarriesData(part) == part.inlineData /\ part.data # ""
HasData(parts) == \E i \in 1..Len(parts) : CarriesData(parts[i])

UserActions == {"TabSwitch", "handleDrop", "handleFileChange", "StartOver"}

RemoteCalls(rec) == rec.editCalls + rec.submitCalls + rec.statusCalls + rec.fetchCalls

\* C1: an image run whose edit response has a part with binary data ends
\* in Success, and the stored result is the data URL whose payload is the
\* payload of such a part
C1_ImageRunSucceeds ==
  (lastIn.at = "generateContent" /\ lastIn.out.ok /\ HasData(lastIn.out.parts))
    => /\ status = Success
       /\ resultUrl.kind = "data"
       /\ \E i \in 1..Len(lastIn.out.parts) :
            /\ CarriesData(lastIn.out.parts[i])
            /\ resultUrl.data = lastIn.out.parts[i].data

\* the scenario of the spec: one text part, then one binary part
C1_Witness ==
  /\ lastIn.at = "generateContent"
  /\ lastIn.out.parts = <<TextPart, BinaryPart("A")>>
  /\ status = Success
  /\ resultUrl.data = "A"

\* C2: when the edit call resolves with a response in which no part
\* carries binary data, the run ends, the state is Error with the "no image
\* data" message, and the step leaves the stored result as it was
C2_NoResultData ==
  [][(/\ lastIn'.at \in {"generateContent", "generateContentFrame"}
      /\ lastIn'.out.ok
      /\ ~HasData(lastIn'.out.parts))
       => /\ status' = ErrorState(MsgNoImageData)
          /\ resultUrl' = resultUrl
          /\ runs'[lastIn'.run] = NoRun]_vars

C2_Witness ==
  /\ lastIn.at = "generateContent"
  /\ lastIn.out.parts = <<TextPart>>
  /\ status = ErrorState(MsgNoImageData)
  /\ ~InFlight(lastIn.run)

\* C3: when the authorization check of the orchestrator answers false, the
\* state becomes Idle, the run has made no remote call, and it makes none
\* until it ends
C3_DeniedMakesNoCall ==
  [][/\ (/\ lastIn'.at = "hasSelectedApiKey"
         /\ lastIn'.out.ok
         /\ lastIn'.out.value = "false")
          => /\ status' = Idle
             /\ runs'[lastIn'.run].pc = "openSelectKey"
             /\ RemoteCalls(runs'[lastIn'.run]) = 0
     /\ \A r \in RunIds :
          (runs[r].pc = "openSelectKey" /\ runs'[r] # runs[r])
            => /\ RemoteCalls(runs[r]) = 0
               /\ runs'[r] = NoRun]_vars

C3_Witness ==
  /\ lastIn.at = "hasSelectedApiKey"
  /\ lastIn.out.value = "false"
  /\ status = Idle
  /\ runs[lastIn.run].pc = "openSelectKey"

\* C4: in the poll loop, after N "not done" answers and one "done" answer
\* with a locator the run has made N+1 status queries and one asset fetch,
\* and no asset fetch is made before a done handle is held
C4_PollCounts ==
  \A r \in RunIds :
    /\ runs[r].fetchCalls = (IF runs[r].pc \in {"fetch", "blob"} THEN 1 ELSE 0)
    /\ runs[r].fetchCalls > 0 => (runs[r].operation.done /\ runs[r].operation.uri # NoUri)
    /\ runs[r].pc = "wait" => (runs[r].statusCalls = runs[r].notDone /\ ~runs[r].operation.done)
    /\ runs[r].pc = "getVideosOperation" => runs[r].statusCalls = runs[r].notDone + 1
    /\ (runs[r].pc \in {"fetch", "blob"} /\ runs[r].statusCalls > 0)
         => runs[r].statusCalls = runs[r].notDone + 1

C4_Witness ==
  /\ lastIn.at = "getVideosOperation"
  /\ runs[lastIn.run].pc = "fetch"
  /\ runs[lastIn.run].notDone = MaxPolls
  /\ runs[lastIn.run].statusCalls = MaxPolls + 1
  /\ runs[lastIn.run].fetchCalls = 1

\* C5: at most one run is in flight
C5_OneRunInFlight == Cardinality({r \in RunIds : InFlight(r)}) <= 1

\* C6: a stored result was derived from the currently selected asset
C6_ResultOfSelectedAsset == resultUrl # NoResult => resultUrl.of = file

\* C7: Processing is entered only from Idle, and Success or Error is left
\* only by a user action (a selection, a tab switch, start over, or the
\* dismissal of the error banner), to Idle
C7_StateMachine ==
  [][/\ (status'.status = "processing" /\ status.status # "processing")
          => status.status = "idle"
     /\ (status.status \in {"success", "error"} /\ status' # status)
          => /\ lastIn'.at \in UserActions \cup {"DismissError"}
             /\ status' = Idle]_vars

\* C8: the step in which a run fails leaves the stored result as it was,
\* and a stored result is cleared only by a selection, a tab switch or
\* start over
C8_FailureKeepsResult ==
  [][/\ \A r \in RunIds :
          (InFlight(r) /\ ~InFlight(r)' /\ lastIn'.run = r /\ status'.status = "error")
            => resultUrl' = resultUrl
     /\ (resultUrl # NoResult /\ resultUrl' = NoResult)
          => lastIn'.at \in UserActions]_vars

\* a run has just failed while a result of another run is stored
C8_Witness ==
  /\ lastIn.run # 0
  /\ ~InFlight(lastIn.run)
  /\ status.status = "error"
  /\ resultUrl # NoResult

\* C9: a zero-dimension frame ends the run in Error before the edit
\* service is called
C9_ZeroFrameFails ==
  [][(lastIn'.at = "seek" /\ lastIn'.out.value = "")
       => /\ status'.status = "error"
          /\ runs'[lastIn'.run].editCalls = 0]_vars

\* C10: whenever an authorization check answers false, in the orchestrator
\* or in reconstructVideoFromImage, the state becomes Idle, not Error
C10_DeniedIsNotError ==
  [][(/\ lastIn'.at \in {"hasSelectedApiKey", "reconstructHasKey"}
      /\ lastIn'.out.ok
      /\ lastIn'.out.value = "false")
       => status' = Idle]_vars

\* C11: in a video run the job is submitted only after the edit call has
\* returned a frame: while a submission has been made the run holds a
\* cleaned frame, and when the edit call fails the run ends in Error with
\* the message of the edit client, having made no call to the video service
C11_SubmitAfterCleanFrame ==
  [][/\ \A r \in RunIds :
          runs'[r].submitCalls > 0
            => (runs'[r].cleanFrame \in Payloads /\ runs'[r].editCalls = 1)
     /\ (/\ lastIn'.at = "generateContentFrame"
         /\ (~lastIn'.out.ok \/ ~HasData(lastIn'.out.parts)))
          => /\ status' = ErrorState(IF lastIn'.out.ok THEN MsgNoImageData
                                     ELSE lastIn'.out.message)
             /\ runs'[lastIn'.run] = NoRun
             /\ runs[lastIn'.run].submitCalls = 0
             /\ runs[lastIn'.run].statusCalls = 0
             /\ runs[lastIn'.run].fetchCalls = 0]_vars

\* the scenario of the spec: the frame is extracted, the edit call answers
\* with text only
C11_Witness ==
  /\ lastIn.at = "generateContentFrame"
  /\ lastIn.out.ok
  /\ lastIn.out.parts = <<TextPart>>
  /\ status = ErrorState(MsgNoImageData)
  /\ runs[lastIn.run] = NoRun

\* a step in which a remote call or the encode step of a run has failed
FailedCall(in) ==
  /\ in.run # 0
  /\ \/ in.at \in {"fileToBase64", "generateVideos", "getVideosOperation", "fetch"}
          /\ ~in.out.ok
     \/ in.at \in {"generateContent", "generateContentFrame"}
          /\ (~in.out.ok \/ ~HasData(in.out.parts))
     \/ in.at = "fetch" /\ in.out.ok /\ in.out.value = "not ok"

\* C12: every failure of the encode step, the edit call, the submission, a
\* status query or the asset fetch, an unsuccessful fetch response included,
\* ends the run in Error, stores no result and stops the run
C12_FailureEndsInError ==
  [][FailedCall(lastIn')
       => /\ status'.status = "error"
          /\ resultUrl' = resultUrl
          /\ runs'[lastIn'.run] = NoRun]_vars

\* the same statement for the failures that reject or throw: these do end
\* the run in Error with the captured message
C12_ThrownFailureEndsInError ==
  [][(FailedCall(lastIn') /\ ~(lastIn'.at = "fetch" /\ lastIn'.out.ok))
       => /\ status' = ErrorState(IF lastIn'.out.ok THEN MsgNoImageData
                                  ELSE lastIn'.out.message)
          /\ resultUrl' = resultUrl
          /\ runs'[lastIn'.run] = NoRun]_vars

\* C13: no remote operation is retried: in one run the edit service is
\* called at most once, the job is submitted at most once and the asset is
\* fetched at most once, and a call that rejects or throws ends the run
C13_NoRetry ==
  [][/\ \A r \in RunIds : /\ runs'[r].editCalls <= 1
                          /\ runs'[r].submitCalls <= 1
                          /\ runs'[r].fetchCalls <= 1
     /\ (lastIn'.run # 0 /\ ~lastIn'.out.ok) => runs'[lastIn'.run] = NoRun]_vars

\* a video run that has made each of the three calls once
C13_Witness ==
  \E r \in RunIds : /\ runs[r].pc = "blob"
                    /\ runs[r].editCalls = 1
                    /\ runs[r].submitCalls = 1
                    /\ runs[r].fetchCalls = 1

\* C14: when the job is reported done without a result locator, by the
\* submission or by a status query, the run ends in Error with the message
\* of the missing locator, stores no result and has issued no asset fetch
C14_MissingLocator ==
  [][(/\ lastIn'.at \in {"generateVideos", "getVideosOperation"}
      /\ lastIn'.out.ok
      /\ lastIn'.out.operation.done
      /\ lastIn'.out.operation.uri = NoUri)
       => /\ status' = ErrorState(MsgNoUri)
          /\ resultUrl' = resultUrl
          /\ runs[lastIn'.run].fetchCalls = 0
          /\ runs'[lastIn'.run] = NoRun]_vars

\* a status query has answered done without a locator
C14_Witness ==
  /\ lastIn.at = "getVideosOperation"
  /\ lastIn.out.ok
  /\ lastIn.out.operation.done
  /\ lastIn.out.operation.uri = NoUri
  /\ status = ErrorState(MsgNoUri)
  /\ resultUrl = NoResult

\* C15: every Processing state that the trigger or a step of the run writes
\* has a progress in 0..100, and one that follows a Processing state of the
\* same run has a progress that is not below it
C15_ProgressMonotone ==
  [][(/\ lastIn'.run # 0 \/ lastIn'.at = "handleRemoveWatermark"
      /\ status'.status = "processing")
       => /\ status'.progress \in 0..100
          /\ status.status = "processing" => status'.progress >= status.progress]_vars

\* the last Processing state of the video path follows that of the frame step
C15_Witness ==
  /\ lastIn.at = "generateContentFrame"
  /\ status = Processing(MsgReconstructing, 70)
  /\ InFlight(lastIn.run)

\* the index of the first part of a response that carries data
FirstData(parts) ==
  CHOOSE i \in 1..Len(parts) :
    CarriesData(parts[i]) /\ \A j \in 1..(i - 1) : ~CarriesData(parts[j])

\* C16: for every response with a part that carries data, the payload that
\* removeImageWatermark returns (stored as the result on the image path,
\* held as the cleaned frame on the video path) is that of the first such
\* part: parts before it are skipped, parts after it have no effect
C16_FirstDataPart ==
  /\ (/\ lastIn.at = "generateContent"
      /\ lastIn.out.ok
      /\ HasData(lastIn.out.parts))
       => /\ resultUrl.kind = "data"
          /\ resultUrl.data = lastIn.out.parts[FirstData(lastIn.out.parts)].data
  /\ (/\ lastIn.at = "generateContentFrame"
      /\ lastIn.out.ok
      /\ HasData(lastIn.out.parts))
       => runs[lastIn.run].cleanFrame
            = lastIn.out.parts[FirstData(lastIn.out.parts)].data

\* two parts with data: the first one is the result
C16_Witness ==
  /\ lastIn.at = "generateContent"
  /\ lastIn.out.parts = <<BinaryPart("A"), BinaryPart("B")>>
  /\ resultUrl.data = "A"

\* C17: when every awaited step settles and the job is reported done after
\* finitely many queries, a triggered run ends, and the state it leaves is
\* Success, Error or Idle (a run whose video never fires loadeddata awaits
\* a step that does not settle); a query answered "not done" always leads
\* to another wait and another query: the loop has no other exit
C17_RunTerminates ==
  /\ InFlight(1) ~> \/ ~InFlight(1) /\ status.status \in {"success", "error", "idle"}
                    \/ runs[1].pc = "pending"
  /\ [][/\ (/\ lastIn'.at = "getVideosOperation"
            /\ lastIn'.out.ok
            /\ ~lastIn'.out.operation.done)
             => /\ runs'[lastIn'.run].pc = "wait"
                /\ status' = status
        /\ (lastIn'.run # 0 /\ lastIn'.at = "wait")
             => runs'[lastIn'.run].pc = "getVideosOperation"]_vars

\* a video run has gone through the poll loop and the fetch and ended in
\* Success
C17_Witness ==
  /\ lastIn.at = "blob"
  /\ lastIn.out.ok
  /\ ~InFlight(1)
  /\ status = Success

\* C18: a status query is made only when the wait of the loop ends, one
\* query per wait, with the handle received last (the k-th query passes
\* the answer to query k - 1, the first one the submission's handle); a run
\* that holds a handle with done = true is not in the loop and makes no
\* further query
C18_PollWithLatestHandle ==
  [][/\ \A r \in RunIds :
          /\ runs'[r].statusCalls > runs[r].statusCalls
               => /\ lastIn' = Input(r, "wait", Resolved("timeout"))
                  /\ runs[r].pc = "wait"
                  /\ runs'[r].statusCalls = runs[r].statusCalls + 1
                  /\ runs'[r].queried = runs[r].statusCalls
          /\ (InFlight(r) /\ runs[r].operation.done)
               => /\ runs[r].pc \notin {"wait", "getVideosOperation"}
                  /\ runs'[r].statusCalls <= runs[r].statusCalls
     /\ (lastIn'.run # 0 /\ lastIn'.at = "wait")
          => runs'[lastIn'.run].statusCalls = runs[lastIn'.run].statusCalls + 1]_vars

\* the second query of a run is in flight, made with the answer to the first
C18_Witness ==
  \E r \in RunIds : /\ runs[r].pc = "getVideosOperation"
                    /\ runs[r].statusCalls = 2
                    /\ runs[r].queried = 1
                    /\ ~runs[r].operation.done

\* C19: a result is stored only while the state is Success: in Idle and in
\* Error the stored result is empty
C19_ResultOnlyInSuccess ==
  status.status \in {"idle", "error"} => resultUrl = NoResult

\* C20: in state Success a result is stored; the step of a run that sets
\* Success stores the result of that run, and every step that clears a
\* stored result sets the state to Idle
C20_SuccessHasResult ==
  /\ [](status = Success => resultUrl # NoResult)
  /\ [][/\ (lastIn'.at \in {"generateContent", "blob"} /\ status' = Success)
             => /\ resultUrl' # NoResult
                /\ resultUrl'.of = runs[lastIn'.run].file
        /\ (resultUrl # NoResult /\ resultUrl' = NoResult) => status' = Idle]_vars

\* a result has been cleared by Start Over while another run is in flight
C20_Witness ==
  /\ lastIn.at = "StartOver"
  /\ resultUrl = NoResult
  /\ status = Idle
  /\ \E r \in RunIds : InFlight(r)

\* C21: a selected asset has the kind of the active tab (image/* on the
\* Image tab, video/* on the Video tab), whichever intake path selected it
C21_SelectedMatchesTab ==
  file # NoFile
    => FileType(file)[1] = (IF activeTab = IMAGE THEN "image" ELSE "video")

\* the part of the same statement about the drop path: a dropped file is
\* selected only when its kind is that of the tab, and one of the wrong
\* kind sets Error and leaves the selected asset and the stored result
C21_DropValidates ==
  [][lastIn'.at = "handleDrop"
       => \/ /\ file' # NoFile
             /\ FileType(file')[1] = (IF activeTab = IMAGE THEN "image" ELSE "video")
             /\ status' = Idle
          \/ /\ status' = ErrorState(MsgInvalid(activeTab))
             /\ file' = file
             /\ resultUrl' = resultUrl]_vars

====
